---- MODULE Spec2Model ----
(***************************************************************************)
(* Role reconciliation engine of the AI XML role validator:                *)
(* normalize_role, the similarity predicates fuzzy_match and               *)
(* fuzzy_partial_match (src/src/utils.py), RoleComparer.compare_roles and  *)
(* RoleComparer.generate_report (src/src/role_comparer.py).                *)
(*                                                                         *)
(* A Python str is a sequence of one-character strings; a dict is the      *)
(* sequence of its <<key, value>> items in insertion order; a set is a set.*)
(***************************************************************************)
EXTENDS Integers, Sequences, FiniteSets, TLC

VARIABLES
    pc,                 \* position of the caller: which call has returned
    role_name,          \* argument of normalize_role
    normalized,         \* value returned by normalize_role
    fuzzy_threshold,    \* RoleComparer.fuzzy_threshold
    xml_roles,          \* argument of compare_roles
    pdf_roles,          \* argument of compare_roles
    is_incorrect,       \* compare_roles result [0]
    matched_roles,      \* compare_roles result [1] (final_matched_roles)
    incorrect_roles,    \* compare_roles result [2] (final_incorrect_roles)
    fuzzy_matches,      \* compare_roles result [3] (fuzzy_match_map, items in insertion order)
    report,             \* report_lines of generate_report, joined by "\n" on return
    statistics,         \* dict returned by get_match_statistics
    xml_filepath,       \* the file at the path given to extract_roles_from_xml
    role_xpath,         \* argument of extract_roles_from_xml
    roles_str,          \* argument of clean_extracted_roles
    text,               \* argument of chunk_text
    chunk_size,         \* argument of chunk_text
    overlap,            \* argument of chunk_text
    start,              \* local of chunk_text
    chunks              \* local of chunk_text, returned

\* arguments and locals of chunk_text
chunkVars == <<text, chunk_size, overlap, start, chunks>>

\* arguments of the role suppliers
supplierVars == <<xml_filepath, role_xpath, roles_str>>

vars == <<pc, role_name, normalized, fuzzy_threshold, xml_roles, pdf_roles,
          is_incorrect, matched_roles, incorrect_roles, fuzzy_matches, report,
          statistics, supplierVars, chunkVars>>

(***************************************************************************)
(* Characters.                                                             *)
(***************************************************************************)
\* The printable ASCII characters in code-point order, U+0020 .. U+007E
\* (the grave accent, which no input of the model contains, is spelled out).
Printable ==
  <<
     " ", "!", "\"", "#", "$", "%", "&", "'", "(", ")", "*", "+", ",", "-", ".", "/",
     "0", "1", "2", "3", "4", "5", "6", "7", "8", "9", ":", ";", "<", "=", ">", "?",
     "@", "A", "B", "C", "D", "E", "F", "G", "H", "I", "J", "K", "L", "M", "N", "O",
     "P", "Q", "R", "S", "T", "U", "V", "W", "X", "Y", "Z", "[", "\\", "]", "^", "_",
     "U+0060", "a", "b", "c", "d", "e", "f", "g", "h", "i", "j", "k", "l", "m", "n", "o",
     "p", "q", "r", "s", "t", "u", "v", "w", "x", "y", "z", "{", "|", "}", "~"
  >>

\* ord(c) for the characters the model uses.
OrdTable ==
    [c \in {Printable[i] : i \in 1..Len(Printable)} |->
        31 + (CHOOSE i \in 1..Len(Printable) : Printable[i] = c)]

Ord(c) == IF c = "\t" THEN 9 ELSE IF c = "\n" THEN 10 ELSE OrdTable[c]

\* str.lower() on one character.
Lower(c) ==
    IF c \in {"\t", "\n"} THEN c
    ELSE IF Ord(c) >= 65 /\ Ord(c) <= 90 THEN Printable[Ord(c) + 32 - 31] ELSE c

\* the regular expression class \s, and the characters str.strip() removes
IsSpace(c) == c \in {" ", "\t", "\n"}

\* the regular expression class \w: letters, digits and the underscore
IsWord(c) ==
    /\ ~IsSpace(c)
    /\ \/ Ord(c) >= 48 /\ Ord(c) <= 57
       \/ Ord(c) >= 65 /\ Ord(c) <= 90
       \/ Ord(c) >= 97 /\ Ord(c) <= 122
       \/ c = "_"

(***************************************************************************)
(* normalize_role                                                          *)
(***************************************************************************)
\* s.lower()
StrLower(s) == [i \in 1..Len(s) |-> Lower(s[i])]

RECURSIVE LStrip(_)
LStrip(s) == IF s # <<>> /\ IsSpace(Head(s)) THEN LStrip(Tail(s)) ELSE s

RECURSIVE RStrip(_)
RStrip(s) ==
    IF s # <<>> /\ IsSpace(s[Len(s)]) THEN RStrip(SubSeq(s, 1, Len(s) - 1)) ELSE s

\* s.strip()
Strip(s) == RStrip(LStrip(s))

KeepChar(c) == IsWord(c) \/ IsSpace(c)

\* re.sub(r'[^\w\s]', '', s)
RemovePunctuation(s) == SelectSeq(s, KeepChar)

\* re.sub(r'\s+', ' ', s): every maximal run of whitespace becomes one space
RECURSIVE CollapseSpaces(_)
CollapseSpaces(s) ==
    IF s = <<>> THEN <<>>
    ELSE IF IsSpace(Head(s))
         THEN <<" ">> \o CollapseSpaces(LStrip(s))
         ELSE <<Head(s)>> \o CollapseSpaces(Tail(s))

normalize_role(s) == CollapseSpaces(RemovePunctuation(Strip(StrLower(s))))

(***************************************************************************)
(* Inputs of the normalizer specification.                                 *)
(***************************************************************************)
MaxNormLen == 3

NormChars == {"a", "B", " ", "-", "_", "\t"}

RECURSIVE StringsUpTo(_, _)
StringsUpTo(chars, n) ==
    IF n = 0 THEN {<<>>}
    ELSE LET shorter == StringsUpTo(chars, n - 1)
         IN  shorter \cup {<<c>> \o s : c \in chars, s \in {t \in shorter : Len(t) = n - 1}}

\* "Software Engineer!"
SoftwareEngineerBang ==
    <<"S","o","f","t","w","a","r","e"," ","E","n","g","i","n","e","e","r","!">>

\* "  Senior-Developer  "
SeniorDashDeveloper ==
    <<" "," ","S","e","n","i","o","r","-","D","e","v","e","l","o","p","e","r"," "," ">>

NormInputs ==
    StringsUpTo(NormChars, MaxNormLen) \cup {SoftwareEngineerBang, SeniorDashDeveloper}

(***************************************************************************)
(* Similarity predicates: fuzz.ratio and fuzz.partial_ratio of thefuzz,    *)
(* as fuzzy_match and fuzzy_partial_match call them.                       *)
(***************************************************************************)
Max(a, b) == IF a >= b THEN a ELSE b

\* length of a longest common subsequence of a[1..i] and b[1..j]
RECURSIVE LCSAt(_, _, _, _)
LCSAt(a, b, i, j) ==
    IF i = 0 \/ j = 0 THEN 0
    ELSE IF a[i] = b[j] THEN 1 + LCSAt(a, b, i - 1, j - 1)
    ELSE Max(LCSAt(a, b, i - 1, j), LCSAt(a, b, i, j - 1))

LCS(a, b) == LCSAt(a, b, Len(a), Len(b))

\* int(round(100 * num / den)), round-half-to-even as Python rounds
RoundPercent(num, den) ==
    LET q == (100 * num) \div den
        r == (100 * num) % den
    IN  IF 2 * r > den THEN q + 1
        ELSE IF 2 * r < den THEN q
        ELSE IF q % 2 = 0 THEN q ELSE q + 1

\* fuzz.ratio: the normalised indel similarity 2*LCS/(len1+len2) as a percentage
Ratio(a, b) ==
    IF Len(a) + Len(b) = 0 THEN 100
    ELSE RoundPercent(2 * LCS(a, b), Len(a) + Len(b))

Chars(s) == {s[i] : i \in 1..Len(s)}

\* the windows of the longer string that the shorter one is aligned with:
\* prefixes shorter than the needle, all full-length windows, and suffixes
Windows(needle, hay) ==
    LET l1 == Len(needle)
        l2 == Len(hay)
    IN  IF l1 = 0 THEN {}   \* no character of hay is in the empty needle
        ELSE {SubSeq(hay, 1, i) : i \in {j \in 1..(l1 - 1) : hay[j] \in Chars(needle)}}
             \cup {SubSeq(hay, i, i + l1 - 1) :
                      i \in {j \in 1..(l2 - l1) : hay[j + l1 - 1] \in Chars(needle)}}
             \cup {SubSeq(hay, i, l2) :
                      i \in {j \in (l2 - l1 + 1)..l2 : hay[j] \in Chars(needle)}}

SetMax(S) == IF S = {} THEN 0 ELSE CHOOSE m \in S : \A n \in S : n <= m

\* best score of the needle against a window of hay, Len(needle) <= Len(hay)
PartialRatioImpl(needle, hay) == SetMax({Ratio(needle, w) : w \in Windows(needle, hay)})

\* fuzz.partial_ratio
PartialRatio(a, b) ==
    IF Len(a) + Len(b) = 0 THEN 100
    ELSE IF Len(a) < Len(b) THEN PartialRatioImpl(a, b)
    ELSE IF Len(a) > Len(b) THEN PartialRatioImpl(b, a)
    ELSE Max(PartialRatioImpl(a, b), PartialRatioImpl(b, a))

fuzzy_match(str1, str2, threshold) == Ratio(str1, str2) >= threshold

\* variant: the comparison of the partial score is reversed
fuzzy_partial_match_Reversed(str1, str2, threshold) == PartialRatio(str1, str2) <= threshold

fuzzy_partial_match(str1, str2, threshold) == PartialRatio(str1, str2) >= threshold

(***************************************************************************)
(* Python containers.                                                      *)
(***************************************************************************)
DictKeys(d) == {d[i][1] : i \in 1..Len(d)}

DictGet(d, k) == d[CHOOSE i \in 1..Len(d) : d[i][1] = k][2]

\* d[k] = v: a new key goes last, an existing key keeps its place
DictPut(d, k, v) ==
    IF k \in DictKeys(d)
    THEN [i \in 1..Len(d) |-> IF d[i][1] = k THEN <<k, v>> ELSE d[i]]
    ELSE Append(d, <<k, v>>)

\* the orders in which a set can be iterated
RECURSIVE IterationOrders(_)
IterationOrders(S) ==
    IF S = {} THEN {<<>>}
    ELSE UNION {{<<x>> \o p : p \in IterationOrders(S \ {x})} : x \in S}

\* a < b in the default string order (code points, a proper prefix first)
RECURSIVE StrLess(_, _)
StrLess(a, b) ==
    IF b = <<>> THEN FALSE
    ELSE IF a = <<>> THEN TRUE
    ELSE IF Head(a) # Head(b) THEN Ord(Head(a)) < Ord(Head(b))
    ELSE StrLess(Tail(a), Tail(b))

\* sorted(S) for a collection of distinct strings
RECURSIVE Sorted(_)
Sorted(S) ==
    IF S = {} THEN <<>>
    ELSE LET least == CHOOSE x \in S : \A y \in S \ {x} : StrLess(x, y)
         IN  <<least>> \o Sorted(S \ {least})

(***************************************************************************)
(* RoleComparer.compare_roles                                              *)
(***************************************************************************)
\* {normalize_role(role): role for role in roles}
RECURSIVE DictByNormalizedKey(_, _)
DictByNormalizedKey(roles, d) ==
    IF roles = <<>> THEN d
    ELSE DictByNormalizedKey(Tail(roles),
                             DictPut(d, normalize_role(Head(roles)), Head(roles)))

\* variant: the XML index is keyed by the raw role, not by its normalised key
normalized_xml_roles_RawKeys(roles) == [i \in 1..Len(roles) |-> <<roles[i], roles[i]>>]

\* variant: the XML index keeps the first role seen with a key (dict.setdefault)
normalized_xml_roles_FirstSeen(roles) ==
    DictByNormalizedKey([i \in 1..Len(roles) |-> roles[Len(roles) + 1 - i]], <<>>)

normalized_xml_roles(roles) == DictByNormalizedKey(roles, <<>>)

normalized_pdf_to_original(roles) == DictByNormalizedKey(roles, <<>>)

\* variant: a direct match is recorded but the key stays in potentially_incorrect
DirectStep_NoDiscard(acc, norm_pdf, nxml) ==
    IF norm_pdf \in DictKeys(nxml)
    THEN [matched_xml_roles     |-> acc.matched_xml_roles \cup {DictGet(nxml, norm_pdf)},
          potentially_incorrect |-> acc.potentially_incorrect]
    ELSE acc

\* body of the Step 1 loop for one item of normalized_pdf_to_original
DirectStep(acc, norm_pdf, nxml) ==
    IF norm_pdf \in DictKeys(nxml)
    THEN [matched_xml_roles     |-> acc.matched_xml_roles \cup {DictGet(nxml, norm_pdf)},
          potentially_incorrect |-> acc.potentially_incorrect \ {norm_pdf}]
    ELSE acc

RECURSIVE DirectLoop(_, _, _, _)
DirectLoop(acc, npdf, i, nxml) ==
    IF i > Len(npdf) THEN acc
    ELSE DirectLoop(DirectStep(acc, npdf[i][1], nxml), npdf, i + 1, nxml)

\* Step 1: direct matching after normalization
DirectPass(nxml, npdf) ==
    DirectLoop([matched_xml_roles     |-> {},
                potentially_incorrect |-> DictKeys(npdf)], npdf, 1, nxml)

\* the inner loop over xml_roles: index of the first XML role that the full
\* or the partial match accepts, 0 when the loop ends without a break
RECURSIVE FuzzyScanFrom(_, _, _, _)
FuzzyScanFrom(orig_pdf, xml, threshold, i) ==
    IF i > Len(xml) THEN 0
    ELSE IF fuzzy_match(orig_pdf, xml[i], threshold) THEN i
    ELSE IF fuzzy_partial_match(orig_pdf, xml[i], threshold) THEN i
    ELSE FuzzyScanFrom(orig_pdf, xml, threshold, i + 1)

\* variant: best fit, the highest-scoring XML role that clears the threshold
FuzzyScan_BestFit(orig_pdf, xml, threshold) ==
    LET score(i) == Max(Ratio(orig_pdf, xml[i]), PartialRatio(orig_pdf, xml[i]))
        cands    == {i \in 1..Len(xml) : score(i) >= threshold}
    IN  IF cands = {} THEN 0
        ELSE CHOOSE i \in cands :
                \A j \in cands : score(i) > score(j) \/ (score(i) = score(j) /\ i <= j)

FuzzyScan(orig_pdf, xml, threshold) == FuzzyScanFrom(orig_pdf, xml, threshold, 1)

\* variant: fuzzy_match_map is keyed by the normalised key of the PDF role
FuzzyStep_NormKey(acc, norm_pdf, npdf, xml, threshold) ==
    LET orig_pdf == DictGet(npdf, norm_pdf)
        found    == FuzzyScan(orig_pdf, xml, threshold)
    IN  IF found # 0
        THEN [matched_xml_roles |-> acc.matched_xml_roles \cup {xml[found]},
              fuzzy_match_map   |-> DictPut(acc.fuzzy_match_map, norm_pdf, xml[found]),
              still_incorrect   |-> acc.still_incorrect]
        ELSE [matched_xml_roles |-> acc.matched_xml_roles,
              fuzzy_match_map   |-> acc.fuzzy_match_map,
              still_incorrect   |-> acc.still_incorrect \cup {norm_pdf}]

\* variant: an XML role that is already matched cannot be matched again
FuzzyStep_ClaimOnce(acc, norm_pdf, npdf, xml, threshold) ==
    LET orig_pdf == DictGet(npdf, norm_pdf)
        found    == FuzzyScan(orig_pdf, xml, threshold)
    IN  IF found # 0 /\ xml[found] \notin acc.matched_xml_roles
        THEN [matched_xml_roles |-> acc.matched_xml_roles \cup {xml[found]},
              fuzzy_match_map   |-> DictPut(acc.fuzzy_match_map, orig_pdf, xml[found]),
              still_incorrect   |-> acc.still_incorrect]
        ELSE [matched_xml_roles |-> acc.matched_xml_roles,
              fuzzy_match_map   |-> acc.fuzzy_match_map,
              still_incorrect   |-> acc.still_incorrect \cup {norm_pdf}]

\* body of the Step 2 loop for one element of potentially_incorrect
FuzzyStep(acc, norm_pdf, npdf, xml, threshold) ==
    LET orig_pdf == DictGet(npdf, norm_pdf)
        found    == FuzzyScan(orig_pdf, xml, threshold)
    IN  IF found # 0
        THEN [matched_xml_roles |-> acc.matched_xml_roles \cup {xml[found]},
              fuzzy_match_map   |-> DictPut(acc.fuzzy_match_map, orig_pdf, xml[found]),
              still_incorrect   |-> acc.still_incorrect]
        ELSE [matched_xml_roles |-> acc.matched_xml_roles,
              fuzzy_match_map   |-> acc.fuzzy_match_map,
              still_incorrect   |-> acc.still_incorrect \cup {norm_pdf}]

RECURSIVE FuzzyLoop(_, _, _, _, _)
FuzzyLoop(acc, order, npdf, xml, threshold) ==
    IF order = <<>> THEN acc
    ELSE FuzzyLoop(FuzzyStep(acc, Head(order), npdf, xml, threshold),
                   Tail(order), npdf, xml, threshold)

\* Step 2: fuzzy matching of potentially_incorrect, iterated in the given order
FuzzyPass(matched, order, npdf, xml, threshold) ==
    FuzzyLoop([matched_xml_roles |-> matched,
               fuzzy_match_map   |-> <<>>,
               still_incorrect   |-> {}], order, npdf, xml, threshold)

\* the set that Step 2 iterates
UnresolvedKeys(xml, pdf) ==
    DirectPass(normalized_xml_roles(xml),
               normalized_pdf_to_original(pdf)).potentially_incorrect

\* variant: is_incorrect is decided by the absence of matches
FinalResults_UnlessMatched(fuzzy, npdf) ==
    [is_incorrect    |-> fuzzy.matched_xml_roles = {},
     matched_roles   |-> Sorted(fuzzy.matched_xml_roles),
     incorrect_roles |-> Sorted({DictGet(npdf, norm) : norm \in fuzzy.still_incorrect}),
     fuzzy_matches   |-> fuzzy.fuzzy_match_map]

\* variant: the lists are sorted in descending order (reverse=True)
FinalResults_Descending(fuzzy, npdf) ==
    LET reversed(l) == [i \in 1..Len(l) |-> l[Len(l) + 1 - i]]
    IN  [is_incorrect    |-> fuzzy.still_incorrect # {},
         matched_roles   |-> reversed(Sorted(fuzzy.matched_xml_roles)),
         incorrect_roles |-> reversed(Sorted({DictGet(npdf, norm) :
                                                 norm \in fuzzy.still_incorrect})),
         fuzzy_matches   |-> fuzzy.fuzzy_match_map]

\* is_incorrect and the final, sorted lists
FinalResults(fuzzy, npdf) ==
    [is_incorrect    |-> fuzzy.still_incorrect # {},
     matched_roles   |-> Sorted(fuzzy.matched_xml_roles),
     incorrect_roles |-> Sorted({DictGet(npdf, norm) : norm \in fuzzy.still_incorrect}),
     fuzzy_matches   |-> fuzzy.fuzzy_match_map]

\* compare_roles, with the iteration order of the set potentially_incorrect
compare_roles(xml, pdf, threshold, order) ==
    LET nxml   == normalized_xml_roles(xml)
        npdf   == normalized_pdf_to_original(pdf)
        direct == DirectPass(nxml, npdf)
        fuzzy  == FuzzyPass(direct.matched_xml_roles, order, npdf, xml, threshold)
    IN  FinalResults(fuzzy, npdf)

(***************************************************************************)
(* RoleComparer.generate_report                                            *)
(*                                                                         *)
(* The report is the sequence report_lines; a line is the sequence of the  *)
(* pieces of its f-string: the literal text, then the values formatted     *)
(* into it (a role, a count).  Pictographs of the literal text are written *)
(* by code point.                                                          *)
(***************************************************************************)
\* "=" * 60
Rule == "============================================================"

HeaderLines ==
    << <<"\n", Rule>>,
       <<"       U+1F4CB ROLE VALIDATION REPORT">>,
       <<Rule>> >>

\* variant: the roles are counted without building the set
UniqueCount_Length(roles) == Len(roles)

\* len(set(roles))
UniqueCount(roles) == Cardinality({roles[i] : i \in 1..Len(roles)})

StatisticsLines(matched, incorrect, fuzzy, xml, pdf) ==
    << <<"\nU+1F4CA STATISTICS:">>,
       <<"  U+2022 Total Unique Roles in XML: ", UniqueCount(xml)>>,
       <<"  U+2022 Total Unique Roles in PDF: ", UniqueCount(pdf)>>,
       <<"  U+2022 Successfully Matched: ", Len(matched)>>,
       <<"  U+2022 Fuzzy Matched: ", Len(fuzzy)>>,
       <<"  U+2022 Incorrect/Unmatched: ", Len(incorrect)>> >>

\* the inner loop over fuzzy_matches.items(): position of the first item whose
\* value is the role, 0 when fuzzy_pdf_role stays None
RECURSIVE FuzzyPdfRoleFrom(_, _, _)
FuzzyPdfRoleFrom(role, fuzzy, i) ==
    IF i > Len(fuzzy) THEN 0
    ELSE IF fuzzy[i][2] = role THEN i
    ELSE FuzzyPdfRoleFrom(role, fuzzy, i + 1)

\* the line of one matched role; "if fuzzy_pdf_role:" is false for None and
\* for the empty string
MatchedLine(role, fuzzy) ==
    LET found == FuzzyPdfRoleFrom(role, fuzzy, 1)
    IN  IF found # 0 /\ fuzzy[found][1] # <<>>
        THEN <<"  U+2248 ", role, " (fuzzy matched: '", fuzzy[found][1], "')">>
        ELSE <<"  U+2713 ", role>>

MatchedSection(matched, fuzzy) ==
    << <<"\nU+2705 MATCHED ROLES (XML U+2194 PDF):">> >>
    \o (IF matched # <<>>
        THEN [i \in 1..Len(matched) |-> MatchedLine(matched[i], fuzzy)]
        ELSE << <<"  (No matches found)">> >>)

IncorrectSection(incorrect) ==
    << <<"\nU+274C INCORRECT PDF ROLES (Not in XML):">> >>
    \o (IF incorrect # <<>>
        THEN [i \in 1..Len(incorrect) |-> <<"  U+2717 ", incorrect[i]>>]
        ELSE << <<"  (None - All PDF roles matched XML)">> >>)

\* set([r.lower() for r in matched_roles])
pdf_matched_set(matched) == {StrLower(matched[i]) : i \in 1..Len(matched)}

\* variant: the membership test compares the spellings as they are
missing_roles_CaseSensitive(xml, matched) ==
    LET missing(r) == r \notin {matched[i] : i \in 1..Len(matched)}
    IN  SelectSeq(xml, missing)

\* [r for r in xml_roles if r.lower() not in pdf_matched_set]
missing_roles(xml, matched) ==
    LET missing(r) == StrLower(r) \notin pdf_matched_set(matched)
    IN  SelectSeq(xml, missing)

GapSection(xml, matched) ==
    LET missing == missing_roles(xml, matched)
    IN  IF missing # <<>>
        THEN << <<"\nU+26A0 ROLES IN XML BUT NOT FOUND IN PDF:">> >>
             \o [i \in 1..Len(missing) |-> <<"  U+2298 ", missing[i]>>]
        ELSE <<>>

\* variant: the two branches of the conclusion are exchanged
ConclusionLines_Exchanged(incorrect_flag) ==
    << <<"\n", Rule>> >>
    \o (IF ~incorrect_flag
        THEN << <<"U+1F534 CONCLUSION: PDF CONTAINS INCORRECT ROLES">>,
                <<"   U+2192 Some roles in the PDF do not match XML definitions">> >>
        ELSE << <<"U+1F7E2 CONCLUSION: ALL PDF ROLES ARE CORRECT">>,
                <<"   U+2192 All roles in PDF match XML definitions">> >>)
    \o << <<Rule, "\n">> >>

ConclusionLines(incorrect_flag) ==
    << <<"\n", Rule>> >>
    \o (IF incorrect_flag
        THEN << <<"U+1F534 CONCLUSION: PDF CONTAINS INCORRECT ROLES">>,
                <<"   U+2192 Some roles in the PDF do not match XML definitions">> >>
        ELSE << <<"U+1F7E2 CONCLUSION: ALL PDF ROLES ARE CORRECT">>,
                <<"   U+2192 All roles in PDF match XML definitions">> >>)
    \o << <<Rule, "\n">> >>

generate_report(incorrect_flag, matched, incorrect, fuzzy, xml, pdf) ==
    HeaderLines
    \o StatisticsLines(matched, incorrect, fuzzy, xml, pdf)
    \o MatchedSection(matched, fuzzy)
    \o IncorrectSection(incorrect)
    \o GapSection(xml, matched)
    \o ConclusionLines(incorrect_flag)

(***************************************************************************)
(* RoleComparer.get_match_statistics                                       *)
(***************************************************************************)
\* round(total_matched / total_pdf * 100, 2), in hundredths of a percent:
\* the nearest hundredth, a tie going to the even one
MatchRate(total_matched, total_pdf) ==
    LET q == (10000 * total_matched) \div total_pdf
        r == (10000 * total_matched) % total_pdf
    IN  IF 2 * r > total_pdf THEN q + 1
        ELSE IF 2 * r < total_pdf THEN q
        ELSE IF q % 2 = 0 THEN q ELSE q + 1

\* variant: the rate is taken over len(pdf_roles), duplicates included
get_match_statistics_PerElement(matched, incorrect, xml, pdf) ==
    [total_xml_roles       |-> UniqueCount(xml),
     total_pdf_roles       |-> UniqueCount(pdf),
     matched_count         |-> Len(matched),
     incorrect_count       |-> Len(incorrect),
     match_rate_percentage |-> IF Len(pdf) > 0 THEN MatchRate(Len(matched), Len(pdf)) ELSE 0,
     is_valid              |-> Len(incorrect) = 0,
     matched_roles         |-> matched,
     incorrect_roles       |-> incorrect]

get_match_statistics(matched, incorrect, xml, pdf) ==
    LET total_xml       == UniqueCount(xml)
        total_pdf       == UniqueCount(pdf)
        total_matched   == Len(matched)
        total_incorrect == Len(incorrect)
        match_rate      == IF total_pdf > 0 THEN MatchRate(total_matched, total_pdf) ELSE 0
    IN  [total_xml_roles       |-> total_xml,
         total_pdf_roles       |-> total_pdf,
         matched_count         |-> total_matched,
         incorrect_count       |-> total_incorrect,
         match_rate_percentage |-> match_rate,
         is_valid              |-> total_incorrect = 0,
         matched_roles         |-> matched,
         incorrect_roles       |-> incorrect]

(***************************************************************************)
(* Inputs of the comparer specification.                                   *)
(***************************************************************************)
MaxXml == 2
MaxPdf == 2

\* the default threshold of config.py
FUZZY_MATCH_THRESHOLD == 80

\* role strings "-", "QA", "Q-A", "QAs": a punctuation-only role, two
\* spellings of one normalised key, and a near miss of both
RolePool == { <<"-">>, <<"Q","A">>, <<"Q","-","A">>, <<"Q","A","s">> }

\* the slider range 50..100 with its default 80, and FUZZY_MATCH_THRESHOLD
\* values that the environment can set outside it
Thresholds == {0, 50, FUZZY_MATCH_THRESHOLD, 100, 101}

RoleLists(n) == UNION {[1..k -> RolePool] : k \in 0..n}

(***************************************************************************)
(* The functions that a specification does not call have not been given    *)
(* arguments.                                                              *)
(***************************************************************************)
NoFile == [exists |-> FALSE, well_formed |-> FALSE, nodes |-> <<>>, recovered |-> 0]

NoStatistics == <<>>

NoChunking ==
    /\ text = <<>>
    /\ chunk_size = 0
    /\ overlap = 0
    /\ start = 0
    /\ chunks = <<>>

NoSupplier ==
    /\ xml_filepath = NoFile
    /\ role_xpath = ""
    /\ roles_str = <<>>

Idle == statistics = NoStatistics /\ NoSupplier /\ NoChunking

(***************************************************************************)
(* Specification of the comparer: a RoleComparer is constructed with a     *)
(* threshold and compare_roles is called on it.                            *)
(***************************************************************************)
Init ==
    /\ pc = "ready"
    /\ fuzzy_threshold \in Thresholds
    /\ role_name = <<>>
    /\ normalized = <<>>
    /\ xml_roles = <<>>
    /\ pdf_roles = <<>>
    /\ is_incorrect = FALSE
    /\ matched_roles = <<>>
    /\ incorrect_roles = <<>>
    /\ fuzzy_matches = <<>>
    /\ report = <<>>
    /\ Idle

CompareRoles ==
    /\ pc = "ready"
    /\ \E xml \in RoleLists(MaxXml), pdf \in RoleLists(MaxPdf) :
         \E order \in IterationOrders(UnresolvedKeys(xml, pdf)) :
           \* the returned tuple, bound once
           \E r \in {compare_roles(xml, pdf, fuzzy_threshold, order)} :
              /\ xml_roles' = xml
              /\ pdf_roles' = pdf
              /\ is_incorrect' = r.is_incorrect
              /\ matched_roles' = r.matched_roles
              /\ incorrect_roles' = r.incorrect_roles
              /\ fuzzy_matches' = r.fuzzy_matches
    /\ pc' = "compared"
    /\ UNCHANGED <<fuzzy_threshold, role_name, normalized, report,
                   statistics, supplierVars, chunkVars>>

Next == CompareRoles

Spec == Init /\ [][Next]_vars

(***************************************************************************)
(* Specification of the normalizer: normalize_role is applied to a string. *)
(***************************************************************************)
NormInit ==
    /\ pc = "call"
    /\ role_name \in NormInputs
    /\ normalized = <<>>
    /\ fuzzy_threshold = FUZZY_MATCH_THRESHOLD
    /\ xml_roles = <<>>
    /\ pdf_roles = <<>>
    /\ is_incorrect = FALSE
    /\ matched_roles = <<>>
    /\ incorrect_roles = <<>>
    /\ fuzzy_matches = <<>>
    /\ report = <<>>
    /\ Idle

NormalizeRole ==
    /\ pc = "call"
    /\ normalized' = normalize_role(role_name)
    /\ pc' = "returned"
    /\ UNCHANGED <<role_name, fuzzy_threshold, xml_roles, pdf_roles,
                   is_incorrect, matched_roles, incorrect_roles, fuzzy_matches, report,
                   statistics, supplierVars, chunkVars>>

NormNext == NormalizeRole

SpecNorm == NormInit /\ [][NormNext]_vars

(***************************************************************************)
(* Specification of the validation run: the roles have been extracted,     *)
(* compare_roles is called on them and generate_report on its result.      *)
(***************************************************************************)
MaxReportXml == 2
MaxReportPdf == 2

\* role strings "", "qa", "QA", "Q-A", "QAs": the empty role, two spellings
\* that differ in case only, one that differs in punctuation, a near miss
ReportPool == { <<>>, <<"q","a">>, <<"Q","A">>, <<"Q","-","A">>, <<"Q","A","s">> }

ReportRoleLists(n) == UNION {[1..k -> ReportPool] : k \in 0..n}

\* a threshold every score reaches, and the default
ReportThresholds == {0, FUZZY_MATCH_THRESHOLD}

ReportInit ==
    /\ pc = "extracted"
    /\ fuzzy_threshold \in ReportThresholds
    /\ xml_roles \in ReportRoleLists(MaxReportXml)
    /\ pdf_roles \in ReportRoleLists(MaxReportPdf)
    /\ role_name = <<>>
    /\ normalized = <<>>
    /\ is_incorrect = FALSE
    /\ matched_roles = <<>>
    /\ incorrect_roles = <<>>
    /\ fuzzy_matches = <<>>
    /\ report = <<>>
    /\ Idle

\* compare_roles on the extracted roles
CompareExtracted ==
    /\ pc = "extracted"
    /\ \E order \in IterationOrders(UnresolvedKeys(xml_roles, pdf_roles)) :
         \E r \in {compare_roles(xml_roles, pdf_roles, fuzzy_threshold, order)} :
            /\ is_incorrect' = r.is_incorrect
            /\ matched_roles' = r.matched_roles
            /\ incorrect_roles' = r.incorrect_roles
            /\ fuzzy_matches' = r.fuzzy_matches
    /\ pc' = "compared"
    /\ UNCHANGED <<fuzzy_threshold, xml_roles, pdf_roles, role_name, normalized, report,
                   statistics, supplierVars, chunkVars>>

\* generate_report on the stored result
GenerateReport ==
    /\ pc = "compared"
    /\ report' = generate_report(is_incorrect, matched_roles, incorrect_roles,
                                 fuzzy_matches, xml_roles, pdf_roles)
    /\ pc' = "reported"
    /\ UNCHANGED <<fuzzy_threshold, xml_roles, pdf_roles, role_name, normalized,
                   is_incorrect, matched_roles, incorrect_roles, fuzzy_matches,
                   statistics, supplierVars, chunkVars>>

\* get_match_statistics on the stored result
GetMatchStatistics ==
    /\ pc = "reported"
    /\ statistics' = get_match_statistics(matched_roles, incorrect_roles,
                                          xml_roles, pdf_roles)
    /\ pc' = "summarised"
    /\ UNCHANGED <<fuzzy_threshold, xml_roles, pdf_roles, role_name, normalized,
                   is_incorrect, matched_roles, incorrect_roles, fuzzy_matches,
                   report, supplierVars, chunkVars>>

ReportNext == CompareExtracted \/ GenerateReport \/ GetMatchStatistics

SpecReport == ReportInit /\ [][ReportNext]_vars

(***************************************************************************)
(* extract_roles_from_xml (src/src/xml_parser.py)                          *)
(*                                                                         *)
(* A file is the record of what decides the outcome: whether the path      *)
(* exists, whether the document is well-formed, the text nodes of its role *)
(* elements in document order, and how many of them lie in the part that   *)
(* the recovering parser (recover=True) keeps when the document is not     *)
(* well-formed.  A library call returns a value or raises.                 *)
(***************************************************************************)
\* etree.parse(xml_filepath, parser=XMLParser(recover=True)): the tree of a
\* well-formed document, the recovered part of one that is not, or
\* XMLSyntaxError when nothing can be recovered
Parse(file) ==
    IF file.well_formed THEN [raised |-> "", tree |-> file.nodes]
    ELSE IF file.recovered = 0 THEN [raised |-> "XMLSyntaxError", tree |-> <<>>]
    ELSE [raised |-> "", tree |-> SubSeq(file.nodes, 1, file.recovered)]

\* tree.xpath(role_xpath): the text nodes of the role elements, nothing for
\* an expression that selects no node, XPathEvalError for an invalid one
XPath(tree, expression) ==
    IF expression = "//role/text()" THEN [raised |-> "", role_elements |-> tree]
    ELSE IF expression = "//position/text()" THEN [raised |-> "", role_elements |-> <<>>]
    ELSE [raised |-> "XPathEvalError", role_elements |-> <<>>]

\* the loop over role_elements: str(element).strip(), kept when non-empty
RECURSIVE StrippedRoles(_)
StrippedRoles(role_elements) ==
    IF role_elements = <<>> THEN <<>>
    ELSE LET role_text == Strip(Head(role_elements))
         IN  (IF role_text # <<>> THEN <<role_text>> ELSE <<>>)
             \o StrippedRoles(Tail(role_elements))

\* the value returned; both except clauses return []
extract_roles_from_xml(file, expression) ==
    IF ~file.exists THEN <<>>
    ELSE LET parsed == Parse(file)
         IN  IF parsed.raised # "" THEN <<>>
             ELSE LET selected == XPath(parsed.tree, expression)
                  IN  IF selected.raised # "" THEN <<>>
                      ELSE StrippedRoles(selected.role_elements)

(***************************************************************************)
(* Specification of the XML role supplier: extract_roles_from_xml is       *)
(* called on a file and an XPath expression.                               *)
(***************************************************************************)
MaxNodes == 2

\* text nodes "QA", " qa " and " "
NodePool == { <<"Q","A">>, <<" ","q","a"," ">>, <<" ">> }

NodeLists == UNION {[1..k -> NodePool] : k \in 0..MaxNodes}

XmlFiles ==
    {NoFile}
    \cup {[exists |-> TRUE, well_formed |-> TRUE, nodes |-> n, recovered |-> Len(n)] :
             n \in NodeLists}
    \cup {[exists |-> TRUE, well_formed |-> FALSE, nodes |-> n, recovered |-> k] :
             n \in NodeLists, k \in 0..MaxNodes}

\* DEFAULT_XML_XPATH, an expression that selects nothing, an invalid one
XPaths == {"//role/text()", "//position/text()", "//role["}

XmlInit ==
    /\ pc = "call"
    /\ xml_filepath \in {f \in XmlFiles : f.recovered <= Len(f.nodes)}
    /\ role_xpath \in XPaths
    /\ roles_str = <<>>
    /\ fuzzy_threshold = FUZZY_MATCH_THRESHOLD
    /\ role_name = <<>>
    /\ normalized = <<>>
    /\ xml_roles = <<>>
    /\ pdf_roles = <<>>
    /\ is_incorrect = FALSE
    /\ matched_roles = <<>>
    /\ incorrect_roles = <<>>
    /\ fuzzy_matches = <<>>
    /\ report = <<>>
    /\ statistics = NoStatistics
    /\ NoChunking

ExtractRolesFromXml ==
    /\ pc = "call"
    /\ xml_roles' = extract_roles_from_xml(xml_filepath, role_xpath)
    /\ pc' = "returned"
    /\ UNCHANGED <<role_name, normalized, fuzzy_threshold, pdf_roles, is_incorrect,
                   matched_roles, incorrect_roles, fuzzy_matches, report,
                   statistics, supplierVars, chunkVars>>

XmlNext == ExtractRolesFromXml

SpecXml == XmlInit /\ [][XmlNext]_vars

(***************************************************************************)
(* clean_extracted_roles (src/src/utils.py)                                *)
(***************************************************************************)
\* 'none'
NoneWord == <<"n","o","n","e">>

\* the character class [\s\-...\*\d\.] of the list markers (its three
\* non-ASCII characters are in no input of the model)
IsMarker(c) ==
    \/ IsSpace(c)
    \/ c \in {"-", "*", "."}
    \/ Ord(c) >= 48 /\ Ord(c) <= 57

\* end of the run of markers that starts at position i
RECURSIVE MarkerRunEnd(_, _)
MarkerRunEnd(s, i) ==
    IF i <= Len(s) /\ IsMarker(s[i]) THEN MarkerRunEnd(s, i + 1) ELSE i

\* re.sub(r'^[...]+', '', s, flags=re.MULTILINE) from position i on: a run of
\* markers is deleted where it starts a line
RECURSIVE RemoveMarkersFrom(_, _)
RemoveMarkersFrom(s, i) ==
    IF i > Len(s) THEN <<>>
    ELSE IF (i = 1 \/ s[i - 1] = "\n") /\ IsMarker(s[i])
         THEN RemoveMarkersFrom(s, MarkerRunEnd(s, i))
         ELSE <<s[i]>> \o RemoveMarkersFrom(s, i + 1)

\* re.split(r'[,;\n]', s): the pieces between delimiters, empty ones included;
\* piece is the part of the current piece read so far
RECURSIVE SplitFrom(_, _, _)
SplitFrom(s, i, piece) ==
    IF i > Len(s) THEN <<piece>>
    ELSE IF s[i] \in {",", ";", "\n"}
         THEN <<piece>> \o SplitFrom(s, i + 1, <<>>)
         ELSE SplitFrom(s, i + 1, Append(piece, s[i]))

\* the first loop: each role stripped, kept unless empty or 'none'
RECURSIVE cleaned_roles(_)
cleaned_roles(roles) ==
    IF roles = <<>> THEN <<>>
    ELSE LET role == Strip(Head(roles))
         IN  (IF role # <<>> /\ StrLower(role) # NoneWord THEN <<role>> ELSE <<>>)
             \o cleaned_roles(Tail(roles))

RECURSIVE UniqueFrom(_, _, _)
\* variant: seen holds the roles as they are spelled
unique_roles_CaseSensitive(cleaned) ==
    LET kept(i) == \A j \in 1..(i - 1) : cleaned[j] # cleaned[i]
        at      == {i \in 1..Len(cleaned) : kept(i)}
        RECURSIVE take(_)
        take(i) == IF i > Len(cleaned) THEN <<>>
                   ELSE (IF i \in at THEN <<cleaned[i]>> ELSE <<>>) \o take(i + 1)
    IN  take(1)

\* the second loop: a role is kept unless its lowercase form has been seen
unique_roles(cleaned) == UniqueFrom(cleaned, 1, {})

UniqueFrom(cleaned, i, seen) ==
    IF i > Len(cleaned) THEN <<>>
    ELSE IF StrLower(cleaned[i]) \notin seen
         THEN <<cleaned[i]>> \o UniqueFrom(cleaned, i + 1, seen \cup {StrLower(cleaned[i])})
         ELSE UniqueFrom(cleaned, i + 1, seen)

clean_extracted_roles(raw) ==
    IF raw = <<>> \/ StrLower(Strip(raw)) = NoneWord THEN <<>>
    ELSE unique_roles(cleaned_roles(SplitFrom(RemoveMarkersFrom(raw, 1), 1, <<>>)))

(***************************************************************************)
(* Specification of the PDF role supplier: clean_extracted_roles is called *)
(* on the answer of the language model and its result is the PDF roles.    *)
(***************************************************************************)
MaxRolesStrLen == 4

RolesStrChars == {"a", "A", ",", "\n", "-", " "}

\* "None", " none ", "NONE\n" and "a;None;A"
NoneAnswers ==
    { <<"N","o","n","e">>, <<" ","n","o","n","e"," ">>, <<"N","O","N","E","\n">>,
      <<"a",";","N","o","n","e",";","A">> }

RolesStrInputs == StringsUpTo(RolesStrChars, MaxRolesStrLen) \cup NoneAnswers

CleanInit ==
    /\ pc = "call"
    /\ roles_str \in RolesStrInputs
    /\ xml_filepath = NoFile
    /\ role_xpath = ""
    /\ fuzzy_threshold = FUZZY_MATCH_THRESHOLD
    /\ role_name = <<>>
    /\ normalized = <<>>
    /\ xml_roles = <<>>
    /\ pdf_roles = <<>>
    /\ is_incorrect = FALSE
    /\ matched_roles = <<>>
    /\ incorrect_roles = <<>>
    /\ fuzzy_matches = <<>>
    /\ report = <<>>
    /\ statistics = NoStatistics
    /\ NoChunking

CleanExtractedRoles ==
    /\ pc = "call"
    /\ pdf_roles' = clean_extracted_roles(roles_str)
    /\ pc' = "returned"
    /\ UNCHANGED <<role_name, normalized, fuzzy_threshold, xml_roles, is_incorrect,
                   matched_roles, incorrect_roles, fuzzy_matches, report,
                   statistics, supplierVars, chunkVars>>

CleanNext == CleanExtractedRoles

SpecClean == CleanInit /\ [][CleanNext]_vars

(***************************************************************************)
(* chunk_text (src/src/utils.py), one loop iteration per step.  pc is      *)
(* "call" before the guard, "loop" at the test of the while loop and       *)
(* "returned" after the return; chunks is then the value returned.         *)
(***************************************************************************)
Min(a, b) == IF a <= b THEN a ELSE b

\* text[start:end] for 0 <= start <= end <= len(text)
Slice(s, from, to) == SubSeq(s, from + 1, to)

\* variant: the step back by the overlap is kept when overlap >= chunk_size
NextStart_Unguarded(from, end, size, lap) == from + size - lap

\* start += chunk_size - overlap, then start = end if overlap >= chunk_size
NextStart(from, end, size, lap) ==
    IF lap >= size THEN end ELSE from + size - lap

MaxTextLen == 3
MaxChunkSize == 3
MaxOverlap == 3

TextChars == {"a", " "}

ChunkInit ==
    /\ pc = "call"
    /\ text \in StringsUpTo(TextChars, MaxTextLen)
    /\ chunk_size \in -1..MaxChunkSize
    /\ overlap \in -1..MaxOverlap
    /\ start = 0
    /\ chunks = <<>>
    /\ NoSupplier
    /\ fuzzy_threshold = FUZZY_MATCH_THRESHOLD
    /\ role_name = <<>>
    /\ normalized = <<>>
    /\ xml_roles = <<>>
    /\ pdf_roles = <<>>
    /\ is_incorrect = FALSE
    /\ matched_roles = <<>>
    /\ incorrect_roles = <<>>
    /\ fuzzy_matches = <<>>
    /\ report = <<>>
    /\ statistics = NoStatistics

chunkRest ==
    <<role_name, normalized, fuzzy_threshold, xml_roles, pdf_roles, is_incorrect,
      matched_roles, incorrect_roles, fuzzy_matches, report, statistics,
      supplierVars, text, chunk_size, overlap>>

\* if not text or chunk_size <= 0: return []
ChunkReject ==
    /\ pc = "call"
    /\ text = <<>> \/ chunk_size <= 0
    /\ chunks' = <<>>
    /\ pc' = "returned"
    /\ UNCHANGED <<start, chunkRest>>

\* chunks = []; start = 0
ChunkEnter ==
    /\ pc = "call"
    /\ ~(text = <<>> \/ chunk_size <= 0)
    /\ chunks' = <<>>
    /\ start' = 0
    /\ pc' = "loop"
    /\ UNCHANGED chunkRest

\* one iteration of the while loop
ChunkIterate ==
    /\ pc = "loop"
    /\ start < Len(text)
    /\ LET end   == Min(start + chunk_size, Len(text))
           chunk == Slice(text, start, end)
       IN  /\ chunks' = IF Strip(chunk) # <<>> THEN Append(chunks, chunk) ELSE chunks
           /\ IF end >= Len(text)
                 THEN /\ pc' = "returned"
                      /\ start' = start
                 ELSE /\ pc' = "loop"
                      /\ start' = NextStart(start, end, chunk_size, overlap)
    /\ UNCHANGED chunkRest

\* the test of the while loop fails: return chunks
ChunkExit ==
    /\ pc = "loop"
    /\ ~(start < Len(text))
    /\ pc' = "returned"
    /\ UNCHANGED <<start, chunks, chunkRest>>

ChunkNext == ChunkReject \/ ChunkEnter \/ ChunkIterate \/ ChunkExit

SpecChunk == ChunkInit /\ [][ChunkNext]_vars

\* the interpreter runs the function to its end: a step that can be taken is taken
SpecChunkFair == SpecChunk /\ WF_vars(ChunkNext)

(***************************************************************************)
(* Properties of compare_roles (specification Spec).                       *)
(***************************************************************************)
Compared == pc = "compared"

\* the elements of a list, the items of a dict
Elems(list) == {list[i] : i \in 1..Len(list)}

\* the result of another invocation on the inputs of this state
Rerun(threshold, order) == compare_roles(xml_roles, pdf_roles, threshold, order)

RerunOrders == IterationOrders(UnresolvedKeys(xml_roles, pdf_roles))

\* one of these orders, for the invocation a state is compared with
RerunOrder == Sorted(UnresolvedKeys(xml_roles, pdf_roles))

\* C1: no string is both in the matched-roles list and in the
\* incorrect-PDF-roles list of a result of compare_roles.
C1_Disjoint == Compared => Elems(matched_roles) \cap Elems(incorrect_roles) = {}

\* a PDF role equal to a matched XML role, next to an incorrect role, at a
\* threshold that no similarity score reaches
C1_Witness ==
    /\ Compared
    /\ fuzzy_threshold > 100
    /\ Elems(pdf_roles) \cap Elems(matched_roles) # {}
    /\ incorrect_roles # <<>>

\* C2: every element of pdf_roles is classified exactly once: it is resolved
\* (its normalised key is the key of an XML role, or it is a key of
\* fuzzy_matches whose XML partner is matched) or it is in the incorrect list,
\* never both and never neither.
C2_ClassifiedOnce ==
    Compared =>
      \A p \in Elems(pdf_roles) :
        LET direct   == \E x \in Elems(xml_roles) : normalize_role(x) = normalize_role(p)
            fuzzy    == /\ p \in DictKeys(fuzzy_matches)
                        /\ DictGet(fuzzy_matches, p) \in Elems(matched_roles)
            resolved == direct \/ fuzzy
        IN  resolved # (p \in Elems(incorrect_roles))

\* C3: every value of fuzzy_matches is in the matched list; every key is an
\* original element of pdf_roles and every value an original element of xml_roles.
C3_FuzzyEntries ==
    Compared =>
      \A e \in Elems(fuzzy_matches) :
        /\ e[2] \in Elems(matched_roles)
        /\ e[1] \in Elems(pdf_roles)
        /\ e[2] \in Elems(xml_roles)

\* a fuzzy entry whose PDF spelling is not its own normalised key
C3_Witness ==
    /\ Compared
    /\ \E e \in Elems(fuzzy_matches) : normalize_role(e[1]) # e[1]

\* C4: compare_roles([s], [s]) returns matched = [s], no incorrect role, no
\* fuzzy entry and is_incorrect = false, for every s and every threshold.
C4_ExactMatch ==
    (Compared /\ Len(xml_roles) = 1 /\ xml_roles = pdf_roles) =>
      /\ matched_roles = xml_roles
      /\ incorrect_roles = <<>>
      /\ fuzzy_matches = <<>>
      /\ is_incorrect = FALSE

\* the same string on both sides, not in normal form, at a threshold above 100
C4_Witness ==
    /\ Compared
    /\ Len(xml_roles) = 1
    /\ xml_roles = pdf_roles
    /\ normalize_role(xml_roles[1]) # xml_roles[1]
    /\ fuzzy_threshold > 100
    /\ matched_roles = xml_roles

\* C7: the incorrect list at a lower threshold is a subset of the incorrect
\* list at a higher threshold, for the same xml_roles and pdf_roles.
C7_IncorrectMonotone ==
    Compared =>
      \A t_low \in {t \in Thresholds : t <= fuzzy_threshold} :
        Elems(Rerun(t_low, RerunOrder).incorrect_roles) \subseteq Elems(incorrect_roles)

\* a role that is incorrect at this threshold and resolved at a lower,
\* in-range one, while another role stays incorrect at both
C7_Witness ==
    /\ Compared
    /\ \E t_low \in {t \in Thresholds : 0 < t /\ t < fuzzy_threshold} :
          LET low == Elems(Rerun(t_low, RerunOrder).incorrect_roles)
          IN  low # {} /\ low # Elems(incorrect_roles)

\* C8 as stated: every entry of fuzzy_matches at a higher threshold is an
\* entry, with the same XML role, of fuzzy_matches at a lower threshold.
C8_EntriesKept ==
    Compared =>
      \A t_low \in {t \in Thresholds : t <= fuzzy_threshold} :
        Elems(fuzzy_matches) \subseteq Elems(Rerun(t_low, RerunOrder).fuzzy_matches)

\* C8 amended: every key of fuzzy_matches at a higher threshold is a key of
\* fuzzy_matches at a lower threshold, and the XML role recorded for it there
\* is the same role or one that comes earlier in xml_roles.
C8_KeysKept ==
    Compared =>
      \A t_low \in {t \in Thresholds : t <= fuzzy_threshold} :
        LET low      == Rerun(t_low, RerunOrder).fuzzy_matches
            first(x) == CHOOSE i \in 1..Len(xml_roles) :
                           /\ xml_roles[i] = x
                           /\ \A j \in 1..(i - 1) : xml_roles[j] # x
        IN  \A e \in Elems(fuzzy_matches) :
              /\ e[1] \in DictKeys(low)
              /\ DictGet(low, e[1]) \in Elems(xml_roles)
              /\ first(DictGet(low, e[1])) <= first(e[2])

\* a fuzzy entry whose XML role changes to an earlier one at a lower threshold
C8_Witness ==
    /\ Compared
    /\ \E t_low \in {t \in Thresholds : 0 < t /\ t < fuzzy_threshold} :
          LET low == Rerun(t_low, RerunOrder).fuzzy_matches
          IN  \E e \in Elems(fuzzy_matches) :
                e[1] \in DictKeys(low) /\ DictGet(low, e[1]) # e[2]

\* C9: two invocations with the same inputs return the same is_incorrect,
\* matched list, incorrect list and fuzzy_matches mapping, whatever order the
\* set of unresolved PDF roles is iterated in: the result of this invocation,
\* which iterated in any of the orders, is that of one iterating in sorted order.
C9_Deterministic ==
    Compared =>
      LET again == Rerun(fuzzy_threshold, RerunOrder)
      IN  /\ again.is_incorrect = is_incorrect
          /\ again.matched_roles = matched_roles
          /\ again.incorrect_roles = incorrect_roles
          /\ Elems(again.fuzzy_matches) = Elems(fuzzy_matches)
          /\ Len(again.fuzzy_matches) = Len(fuzzy_matches)

\* two unresolved roles were fuzzy-matched, and another iteration order
\* inserts them into fuzzy_match_map the other way round
C9_Witness ==
    /\ Compared
    /\ Len(fuzzy_matches) = 2
    /\ \E order \in RerunOrders :
          Rerun(fuzzy_threshold, order).fuzzy_matches # fuzzy_matches

\* C10: the XML role recorded in fuzzy_matches for a PDF role that the direct
\* pass left unresolved is the first element of xml_roles whose whole-string
\* ratio or partial ratio with the raw PDF role reaches the threshold; a role
\* with no such element has no entry.
C10_FirstFit ==
    Compared =>
      LET npdf == normalized_pdf_to_original(pdf_roles)
          qualifies(p, i) == \/ Ratio(p, xml_roles[i]) >= fuzzy_threshold
                             \/ PartialRatio(p, xml_roles[i]) >= fuzzy_threshold
      IN  \A norm \in UnresolvedKeys(xml_roles, pdf_roles) :
            LET p     == DictGet(npdf, norm)
                cands == {i \in 1..Len(xml_roles) : qualifies(p, i)}
            IN  IF cands = {}
                THEN p \notin DictKeys(fuzzy_matches)
                ELSE /\ p \in DictKeys(fuzzy_matches)
                     /\ \E i \in cands :
                          /\ \A j \in cands : i <= j
                          /\ DictGet(fuzzy_matches, p) = xml_roles[i]

\* the recorded XML role scores lower than a later element of xml_roles
C10_Witness ==
    /\ Compared
    /\ fuzzy_threshold > 0
    /\ \E e \in Elems(fuzzy_matches) :
         \E j \in 1..Len(xml_roles) :
            /\ Max(Ratio(e[1], e[2]), PartialRatio(e[1], e[2]))
                 < Max(Ratio(e[1], xml_roles[j]), PartialRatio(e[1], xml_roles[j]))
            /\ \E i \in 1..(j - 1) : xml_roles[i] = e[2]

\* positions in xml_roles of the roles whose normalised key is that of role p
XmlPositions(p) ==
    {i \in 1..Len(xml_roles) : normalize_role(xml_roles[i]) = normalize_role(p)}

\* C11 as stated: when several elements of xml_roles have the same normalised
\* key, the XML index maps the key to the first of them, and a direct match on
\* the key puts that first spelling in the matched list.
C11_FirstSeen ==
    Compared =>
      LET index == normalized_xml_roles(xml_roles)
      IN  \A p \in Elems(pdf_roles) :
            LET at == XmlPositions(p)
            IN  at # {} =>
                  LET first == xml_roles[CHOOSE i \in at : \A j \in at : i <= j]
                  IN  /\ DictGet(index, normalize_role(p)) = first
                      /\ first \in Elems(matched_roles)

\* C11 amended: the XML index maps the key to the last element of xml_roles
\* with that key, and a direct match on the key puts that last spelling in the
\* matched list.
C11_LastSeen ==
    Compared =>
      LET index == normalized_xml_roles(xml_roles)
      IN  \A p \in Elems(pdf_roles) :
            LET at == XmlPositions(p)
            IN  at # {} =>
                  LET last == xml_roles[CHOOSE i \in at : \A j \in at : i >= j]
                  IN  /\ DictGet(index, normalize_role(p)) = last
                      /\ last \in Elems(matched_roles)

\* two spellings of one key in xml_roles, a PDF role with that key, and only
\* the later spelling in the matched list
C11_Witness ==
    /\ Compared
    /\ Len(xml_roles) = 2
    /\ xml_roles[1] # xml_roles[2]
    /\ normalize_role(xml_roles[1]) = normalize_role(xml_roles[2])
    /\ \E p \in Elems(pdf_roles) : XmlPositions(p) # {}
    /\ matched_roles = <<xml_roles[2]>>

\* C12: every PDF role whose normalised key is the key of some XML role is
\* resolved by the direct pass, at every threshold: the XML index's original
\* string for the key is in the matched list, and the PDF role is neither a
\* key of fuzzy_matches nor in the incorrect list.
C12_DirectPass ==
    Compared =>
      LET index == normalized_xml_roles(xml_roles)
      IN  \A p \in Elems(pdf_roles) :
            LET key == normalize_role(p)
            IN  (\E x \in Elems(xml_roles) : normalize_role(x) = key) =>
                  /\ DictGet(index, key) \in Elems(matched_roles)
                  /\ p \notin DictKeys(fuzzy_matches)
                  /\ p \notin Elems(incorrect_roles)

\* a PDF role resolved directly under another spelling than the XML role's,
\* next to a fuzzy-matched one, at a threshold every score reaches
C12_Witness ==
    /\ Compared
    /\ fuzzy_threshold <= 0
    /\ fuzzy_matches # <<>>
    /\ \E p \in Elems(pdf_roles) : XmlPositions(p) # {} /\ p \notin Elems(xml_roles)

\* C13: is_incorrect is true if and only if the returned incorrect list is
\* non-empty.
C13_IsIncorrect == Compared => (is_incorrect <=> incorrect_roles # <<>>)

\* an incorrect role next to a fuzzy-matched one
C13_Witness ==
    /\ Compared
    /\ is_incorrect
    /\ incorrect_roles # <<>>
    /\ matched_roles # <<>>
    /\ fuzzy_matches # <<>>

\* the list has no duplicate and is in ascending default string order
Ascending(list) ==
    /\ Cardinality(Elems(list)) = Len(list)
    /\ \A i \in 1..(Len(list) - 1) : StrLess(list[i], list[i + 1])

\* C14: the matched list and the incorrect list each contain no duplicate
\* string and are in ascending default string order; an XML role matched by
\* several PDF roles appears once in the matched list.
C14_SortedDistinct == Compared => Ascending(matched_roles) /\ Ascending(incorrect_roles)

\* one XML role matched twice, directly by one PDF role and fuzzily by another
C14_Witness ==
    /\ Compared
    /\ Len(matched_roles) = 1
    /\ \E e \in Elems(fuzzy_matches) :
          /\ e[2] = matched_roles[1]
          /\ \E p \in Elems(pdf_roles) :
                /\ p # e[1]
                /\ XmlPositions(p) # {}
                /\ DictGet(normalized_xml_roles(xml_roles), normalize_role(p)) = e[2]

\* C15: compare_roles(xml_roles, []) returns an empty matched list, an empty
\* incorrect list, an empty fuzzy_matches mapping and is_incorrect = false,
\* for every xml_roles and threshold.
C15_EmptyPdf ==
    (Compared /\ pdf_roles = <<>>) =>
      /\ matched_roles = <<>>
      /\ incorrect_roles = <<>>
      /\ fuzzy_matches = <<>>
      /\ is_incorrect = FALSE

\* no PDF role against two XML roles, at a threshold every score reaches
C15_Witness ==
    /\ Compared
    /\ pdf_roles = <<>>
    /\ Len(xml_roles) >= 2
    /\ fuzzy_threshold <= 0
    /\ ~is_incorrect

\* C16: when xml_roles is empty, every element of pdf_roles is in the
\* incorrect list (also when two PDF roles differ only in case or
\* punctuation), the matched list and fuzzy_matches are empty, and
\* is_incorrect is true whenever pdf_roles is non-empty.
C16_EmptyXml ==
    (Compared /\ xml_roles = <<>>) =>
      /\ Elems(pdf_roles) \subseteq Elems(incorrect_roles)
      /\ matched_roles = <<>>
      /\ fuzzy_matches = <<>>
      /\ (pdf_roles # <<>> => is_incorrect)

\* C17: a PDF role whose normalised key is the empty string is matched only
\* if some XML role also normalises to the empty string; otherwise it is in
\* the incorrect list and is not fuzzy- or partial-matched to an XML role.
C17_EmptyKey ==
    Compared =>
      \A p \in Elems(pdf_roles) :
        (/\ normalize_role(p) = <<>>
         /\ \A x \in Elems(xml_roles) : normalize_role(x) # <<>>) =>
          /\ p \in Elems(incorrect_roles)
          /\ p \notin DictKeys(fuzzy_matches)

\* C18: a threshold outside [0,100] is rejected or clamped into [0,100]: a
\* comparison that returns was made with a threshold in the range, or returns
\* what the clamped threshold returns.
C18_ThresholdChecked ==
    (Compared /\ fuzzy_threshold \notin 0..100) =>
      LET clamped == Rerun(IF fuzzy_threshold < 0 THEN 0 ELSE 100, RerunOrder)
      IN  /\ clamped.is_incorrect = is_incorrect
          /\ clamped.matched_roles = matched_roles
          /\ clamped.incorrect_roles = incorrect_roles
          /\ Elems(clamped.fuzzy_matches) = Elems(fuzzy_matches)

\* the lists that hold the elements of pdf_roles in another order
PdfPermutations ==
    {[i \in 1..Len(pdf_roles) |-> pdf_roles[q[i]]] :
        q \in IterationOrders(1..Len(pdf_roles))}

\* C26: the result of compare_roles does not depend on the order of
\* pdf_roles: every permutation of pdf_roles gives the same matched list,
\* incorrect list, is_incorrect and fuzzy_matches mapping, also when two PDF
\* roles share a normalised key and differ in raw spelling.
C26_PdfOrderIndependent ==
    Compared =>
      \A permuted \in PdfPermutations :
        LET other == compare_roles(xml_roles, permuted, fuzzy_threshold,
                                   Sorted(UnresolvedKeys(xml_roles, permuted)))
        IN  /\ other.is_incorrect = is_incorrect
            /\ other.matched_roles = matched_roles
            /\ other.incorrect_roles = incorrect_roles
            /\ Elems(other.fuzzy_matches) = Elems(fuzzy_matches)

(***************************************************************************)
(* Properties of generate_report (specification SpecReport).               *)
(***************************************************************************)
Reported == pc \in {"reported", "summarised"}

Summarised == pc = "summarised"

\* the lines of the report that start with the given literal text
LinesWith(literal) ==
    LET starts(line) == line[1] = literal
    IN  SelectSeq(report, starts)

\* C19: the report has the passing conclusion ("ALL PDF ROLES ARE CORRECT") if
\* and only if the is_incorrect argument is false, and for a result of
\* compare_roles that is exactly when the incorrect-roles section lists no role.
C19_Conclusion ==
    Reported =>
      LET passing == LinesWith("U+1F7E2 CONCLUSION: ALL PDF ROLES ARE CORRECT") # <<>>
          failing == LinesWith("U+1F534 CONCLUSION: PDF CONTAINS INCORRECT ROLES") # <<>>
      IN  /\ passing <=> ~is_incorrect
          /\ failing <=> is_incorrect
          /\ passing <=> LinesWith("  U+2717 ") = <<>>

\* a passing report of a run in which a PDF role was fuzzy-matched
C19_Witness ==
    /\ Reported
    /\ ~is_incorrect
    /\ fuzzy_matches # <<>>
    /\ fuzzy_threshold > 0
    /\ LinesWith("U+1F7E2 CONCLUSION: ALL PDF ROLES ARE CORRECT") # <<>>

\* C20: the gap section lists exactly the elements of xml_roles whose
\* lowercase form is not the lowercase form of any entry of matched_roles, in
\* xml_roles order, and the section is emitted only when that list is non-empty.
C20_GapSection ==
    Reported =>
      LET lowered  == {StrLower(m) : m \in Elems(matched_roles)}
          absent(x) == StrLower(x) \notin lowered
          expected == SelectSeq(xml_roles, absent)
          listed   == LinesWith("  U+2298 ")
          heading  == LinesWith("\nU+26A0 ROLES IN XML BUT NOT FOUND IN PDF:")
      IN  /\ Len(listed) = Len(expected)
          /\ \A i \in 1..Len(listed) : listed[i][2] = expected[i]
          /\ Len(heading) = (IF expected = <<>> THEN 0 ELSE 1)

\* an XML role that is not in the matched list under its own spelling, only
\* under one that differs in case, and is not listed
C20_Witness ==
    /\ Reported
    /\ \E x \in Elems(xml_roles) :
          /\ x \notin Elems(matched_roles)
          /\ \E m \in Elems(matched_roles) : StrLower(m) = StrLower(x)
    /\ LinesWith("  U+2298 ") = <<>>

\* the value formatted into the XML line of the statistics block
XmlCountShown == LinesWith("  U+2022 Total Unique Roles in XML: ")[1][2]

\* C21 as stated: the XML count of the statistics block is the number of XML
\* roles that are distinct when compared case-insensitively.
C21_XmlCountCaseless ==
    Reported => XmlCountShown = Cardinality({StrLower(x) : x \in Elems(xml_roles)})

\* C21 amended: the XML count of the statistics block is the number of
\* distinct strings in xml_roles, compared exactly (two roles that differ only
\* in letter case count twice).
C21_XmlCountExact == Reported => XmlCountShown = Cardinality(Elems(xml_roles))

\* two XML roles that differ only in letter case, counted as two
C21_Witness ==
    /\ Reported
    /\ Len(xml_roles) = 2
    /\ xml_roles[1] # xml_roles[2]
    /\ StrLower(xml_roles[1]) = StrLower(xml_roles[2])
    /\ XmlCountShown = 2

\* the line of the matched-roles section for a role
MatchedLineOf(role) ==
    LET about(line) == line[1] \in {"  U+2248 ", "  U+2713 "} /\ line[2] = role
    IN  SelectSeq(report, about)

\* C22: a matched role is annotated as fuzzy-matched if and only if some entry
\* of fuzzy_matches has the role as its value, and the PDF spelling shown is a
\* key of fuzzy_matches that maps to the role, also when that key is the empty
\* string and when the role was matched directly too.
C22_Annotation ==
    Reported =>
      \A role \in Elems(matched_roles) :
        LET lines == MatchedLineOf(role)
            fuzzy == \E e \in Elems(fuzzy_matches) : e[2] = role
        IN  /\ Len(lines) = 1
            /\ (lines[1][1] = "  U+2248 ") <=> fuzzy
            /\ (lines[1][1] = "  U+2248 ") =>
                  <<lines[1][4], role>> \in Elems(fuzzy_matches)

\* C27: no XML role whose normalised key is the normalised key of some PDF
\* role is listed in the gap section of the report made from the result of
\* compare_roles on the same roles.
C27_GapExcludesPresent ==
    Reported =>
      \A line \in Elems(LinesWith("  U+2298 ")) :
        \A p \in Elems(pdf_roles) : normalize_role(p) # normalize_role(line[2])

\* C28: the report is the same for every order in which the fuzzy pass
\* iterates the set of unresolved PDF roles: the report of this run, which
\* iterated in any of the orders, is that of a run iterating in sorted order.
C28_ReportDeterministic ==
    Reported =>
      LET again == Rerun(fuzzy_threshold, RerunOrder)
      IN  report = generate_report(again.is_incorrect, again.matched_roles,
                                   again.incorrect_roles, again.fuzzy_matches,
                                   xml_roles, pdf_roles)

\* the value formatted into the line of the statistics block with this text
Shown(literal) == LinesWith(literal)[1][2]

C29_CountsBounded ==
    /\ pc \in {"compared", "reported", "summarised"} =>
          Len(matched_roles) + Len(incorrect_roles) <= Cardinality(Elems(pdf_roles))
    /\ Summarised =>
          /\ statistics.matched_count <= statistics.total_pdf_roles
          /\ statistics.match_rate_percentage <= 10000

\* two distinct PDF roles matched to two XML roles: a rate of 100
C29_Witness ==
    /\ Summarised
    /\ Len(matched_roles) = 2
    /\ statistics.total_pdf_roles = 2
    /\ statistics.match_rate_percentage = 10000

(***************************************************************************)
(* Properties of extract_roles_from_xml (specification SpecXml).           *)
(***************************************************************************)
\* C24: extract_roles_from_xml does not raise and returns the empty list
\* whenever the file is missing, the XML is malformed, or no element matches
\* the XPath; a malformed file never yields a partial, non-empty role list.
C24_EmptyOnFailure ==
    /\ pc \in {"call", "returned"}
    /\ (/\ pc = "returned"
        /\ \/ ~xml_filepath.exists
           \/ ~xml_filepath.well_formed
           \/ xml_filepath.nodes = <<>>
           \/ role_xpath # "//role/text()") => xml_roles = <<>>

(***************************************************************************)
(* Properties of clean_extracted_roles (specification SpecClean).          *)
(***************************************************************************)
\* the roles of the answer before duplicates are removed
AnswerRoles == cleaned_roles(SplitFrom(RemoveMarkersFrom(roles_str, 1), 1, <<>>))

\* C25: clean_extracted_roles returns the roles in order of first occurrence
\* with their extracted case, with no empty entry and no two entries that are
\* equal ignoring case, and returns the empty list for an empty input and for
\* an input that is "None" in any case.
C25_CleanRoles ==
    (pc = "returned") =>
      /\ \A i \in 1..Len(pdf_roles) : pdf_roles[i] # <<>>
      /\ \A i, j \in 1..Len(pdf_roles) :
            i # j => StrLower(pdf_roles[i]) # StrLower(pdf_roles[j])
      /\ (roles_str = <<>> \/ StrLower(Strip(roles_str)) = NoneWord) => pdf_roles = <<>>
      /\ (roles_str # <<>> /\ StrLower(Strip(roles_str)) # NoneWord) =>
            \E at \in [1..Len(pdf_roles) -> 1..Len(AnswerRoles)] :
               /\ \A i \in 1..Len(pdf_roles) :
                     /\ AnswerRoles[at[i]] = pdf_roles[i]
                     /\ \A k \in 1..(at[i] - 1) :
                           StrLower(AnswerRoles[k]) # StrLower(pdf_roles[i])
                     /\ \A j \in 1..(i - 1) : at[j] < at[i]
               /\ \A k \in 1..Len(AnswerRoles) :
                     \E i \in 1..Len(pdf_roles) :
                        StrLower(pdf_roles[i]) = StrLower(AnswerRoles[k])

\* a bulleted answer with one role in two cases: the first spelling is kept
C25_Witness ==
    /\ pc = "returned"
    /\ roles_str # <<>>
    /\ roles_str[1] = "-"
    /\ Len(AnswerRoles) = 2
    /\ Len(pdf_roles) = 1
    /\ pdf_roles[1] = AnswerRoles[1]
    /\ pdf_roles[1] # AnswerRoles[2]

(***************************************************************************)
(* Properties of chunk_text (specification SpecChunkFair).                 *)
(***************************************************************************)
ChunkReturned == pc = "returned"

ChunkResult ==
    /\ (ChunkReturned /\ (text = <<>> \/ chunk_size <= 0)) => chunks = <<>>
    /\ \A i \in 1..Len(chunks) : Len(chunks[i]) <= chunk_size

\* an iteration that returns to the test of the loop has moved start forward
StartIncreases == (pc = "loop" /\ pc' = "loop") => start' > start

\* C30: chunk_text terminates for every text, chunk_size and overlap, returns
\* [] when the text is empty or chunk_size <= 0, never returns a chunk longer
\* than chunk_size, and every loop iteration begins at a start strictly greater
\* than that of the iteration before.
C30_ChunkText ==
    /\ []ChunkResult
    /\ [][StartIncreases]_vars
    /\ <>ChunkReturned

\* a finished call with overlap >= chunk_size that went round the loop twice
C30_Witness ==
    /\ ChunkReturned
    /\ chunk_size > 0
    /\ overlap >= chunk_size
    /\ Len(chunks) >= 2
    /\ start >= chunk_size

(***************************************************************************)
(* Properties of normalize_role (specification SpecNorm).                  *)
(***************************************************************************)
\* C5: normalize_role is idempotent: normalising a returned key returns it unchanged.
C5_Idempotent == (pc = "returned") => normalize_role(normalized) = normalized

\* C6: normalize_role("Software Engineer!") is "software engineer" and
\* normalize_role("  Senior-Developer  ") is "senior developer".
C6_Examples ==
    /\ (pc = "returned" /\ role_name = SoftwareEngineerBang) =>
          normalized = <<"s","o","f","t","w","a","r","e"," ","e","n","g","i","n","e","e","r">>
    /\ (pc = "returned" /\ role_name = SeniorDashDeveloper) =>
          normalized = <<"s","e","n","i","o","r"," ","d","e","v","e","l","o","p","e","r">>

====
